---------------------------- MODULE Spec2Model ----------------------------
(***************************************************************************)
(* DSOModuleNode (src/runtime/dso_module.cc): the module that loads a      *)
(* dynamic shared library, resolves its exported symbols, adapts exported  *)
(* functions to PackedFunc and loads the modules embedded in the library's *)
(* __tvm_dev_mblob catalog.                                                *)
(*                                                                         *)
(* The world (the file system, the library's symbol table and embedded     *)
(* blob, the global registry of module.loadbinary_* loaders) is drawn in   *)
(* Init from bounded sets and never changes.  The program state is the     *)
(* DSOModuleNode object, the position of module.loadfile_so inside         *)
(* DSOModuleNode::Init, the references that keep the node alive, and the   *)
(* calls the platform loader, the registry and the loaders have seen.      *)
(***************************************************************************)
EXTENDS Integers, Sequences, FiniteSets, TLC

(***************************************************************************)
(* Bounds of the model.                                                    *)
(***************************************************************************)
MaxRecords == 2      \* records of an embedded catalog
MaxCallables == 2    \* PackedFuncs handed out by GetFunction in one run

(***************************************************************************)
(* Program constants.                                                      *)
(***************************************************************************)
U64Bytes == 8        \* sizeof(uint64_t): the count and every string length

nullptr == "nullptr"
Handle == "handle"   \* the non-null value dlopen returns
This == "this"       \* the address of the DSOModuleNode

\* runtime::symbol::*, the names the library may export
tvm_module_ctx == "__tvm_module_ctx"
tvm_dev_mblob == "__tvm_dev_mblob"
tvm_dev_mblob_nbytes == "__tvm_dev_mblob_nbytes"
tvm_module_main == "__tvm_main__"

\* "module.loadbinary_" as bytes
LoadBinaryPrefix ==
  <<109, 111, 100, 117, 108, 101, 46, 108, 111, 97, 100,
    98, 105, 110, 97, 114, 121, 95>>

(***************************************************************************)
(* The inputs.                                                             *)
(***************************************************************************)
KeyX == <<120>>                       \* "x"
KeyY == <<121>>                       \* "y"
TypeKeys == {KeyX, KeyY}
Paths == {"lib.so", "missing.so"}     \* only lib.so can be opened
FuncNames == {"foo", "bar"}           \* the function symbols lib.so exports
Names == FuncNames \cup {"baz", tvm_module_main}   \* names asked of GetFunction
MainEntries == {nullptr, "foo", "baz"}  \* the string __tvm_main__ points to
RetCodes == {0, 1, -1}
ErrStrings == {"e1", "e2"}
Threads == {"t1", "t2"}
ArgLists == {<<>>, <<7>>}             \* args.values; type_codes run parallel
LoaderKinds == {"none", "exact", "short"}
PayloadLens == {1, 2}                 \* bytes of one record's payload

RECURSIVE ShiftRight8(_, _)
ShiftRight8(n, k) == IF k = 0 THEN n ELSE ShiftRight8(n \div 256, k - 1)

\* dmlc::Stream::Write(uint64_t): native-endian (little-endian) bytes
EncodeU64(n) == [k \in 1..U64Bytes |-> ShiftRight8(n, k - 1) % 256]

\* Every blob here is far shorter than 256 * 256 bytes, so a decoded count or
\* length at or above it lies past the end of any blob; such values are
\* all kept as 256 * 256 (TLC's integers are 32 bits wide).
PastAnyBlob == 256 * 256

RECURSIVE DecodeFrom(_, _)
DecodeFrom(bs, k) ==
  IF k > Len(bs) THEN 0
  ELSE LET v == bs[k] + 256 * DecodeFrom(bs, k + 1)
       IN IF v > PastAnyBlob THEN PastAnyBlob ELSE v

\* the uint64_t a Read(&size) assembles from 8 bytes
DecodeU64(bs) == DecodeFrom(bs, 1)

\* dmlc::Stream::Write(std::string): 8-byte length, then the characters
EncodeString(s) == EncodeU64(Len(s)) \o s

\* A payload is self-describing: its first byte is its own length (>= 1),
\* the rest is data that names the record it belongs to.
Payload(j, len) == [k \in 1..len |-> IF k = 1 THEN len ELSE 16 * j + k]

Records == [tkey : TypeKeys, len : PayloadLens]

RECURSIVE EncodeRecords(_, _)
EncodeRecords(recs, j) ==
  IF j > Len(recs) THEN <<>>
  ELSE EncodeString(recs[j].tkey) \o Payload(j, recs[j].len)
       \o EncodeRecords(recs, j + 1)

\* the blob the build tooling embeds for a catalog, with count N written
EncodeBlob(n, recs) == EncodeU64(n) \o EncodeRecords(recs, 1)

RECURSIVE SeqsUpTo(_, _)
SeqsUpTo(S, n) ==
  IF n = 0 THEN {<<>>}
  ELSE LET shorter == SeqsUpTo(S, n - 1)
       IN shorter \cup {Append(s, x) : s \in {t \in shorter : Len(t) = n - 1}, x \in S}

Catalogs == SeqsUpTo(Records, MaxRecords)


\* A library file: what it exports and the blob embedded in it.
\*   hasCtx     the module-context slot __tvm_module_ctx is exported
\*   main       the string __tvm_main__ points to (nullptr: not exported)
\*   hasBlob    __tvm_dev_mblob is exported
\*   hasNbytes  __tvm_dev_mblob_nbytes is exported
\*   blob       the bytes at __tvm_dev_mblob
\*   nbytes     the value at __tvm_dev_mblob_nbytes
\*   recs, count  the catalog and the count the blob was written from
Blob(count, recs, cut) ==
  [recs |-> recs, count |-> count, blob |-> EncodeBlob(count, recs),
   nbytes |-> Len(EncodeBlob(count, recs)) - cut]

NoBlob == [recs |-> <<>>, count |-> 0, blob |-> <<>>, nbytes |-> 0]

\* a catalog written with count 0, its own count or one more, whole or one
\* byte short
BlobVariants ==
  {Blob(v[2], v[1], v[3]) :
     v \in {w \in Catalogs \X (0..(MaxRecords + 1)) \X {0, 1} :
              w[2] \in {0, Len(w[1]), Len(w[1]) + 1}}}

Libraries ==
  {[hasCtx |-> v[1], main |-> v[2], hasBlob |-> v[3], hasNbytes |-> v[4],
    blob |-> v[5].blob, nbytes |-> v[5].nbytes,
    recs |-> v[5].recs, count |-> v[5].count] :
     v \in {w \in BOOLEAN \X MainEntries \X BOOLEAN \X BOOLEAN
                    \X (BlobVariants \cup {NoBlob}) :
              w[3] = (w[5] # NoBlob)}}

\* The process-wide registry: for each type key, no loader, a loader that
\* consumes exactly its payload, or one that stops after the first byte.
Registries == [TypeKeys -> LoaderKinds]

AllExact == [t \in TypeKeys |-> "exact"]

\* Init reads the registry only when it parses a blob
ParsesBlob(l) == l.hasBlob /\ l.hasNbytes

\* The worlds of the loading runs: every library that nominates "foo" as its
\* main entry, under every registry.
LoadWorlds ==
  {w \in {l \in Libraries : l.main = "foo"} \X Registries :
     ~ParsesBlob(w[1]) => w[2] = AllExact}

\* The worlds of the full runs: every symbol table of a library with no blob
\* symbol, with the catalog x, y, or with that blob without its length; the
\* loader of y may be missing.
CallBlobs ==
  {NoBlob,
   Blob(2, <<[tkey |-> KeyX, len |-> 1], [tkey |-> KeyY, len |-> 2]>>, 0)}

CallWorlds ==
  {w \in {l \in Libraries :
            /\ \E b \in CallBlobs : l.blob = b.blob /\ l.nbytes = b.nbytes
                                    /\ l.count = b.count /\ l.recs = b.recs
            /\ l.hasNbytes => l.hasBlob}
         \X {AllExact, [AllExact EXCEPT ![KeyY] = "none"]} :
     ~ParsesBlob(w[1]) => w[2] = AllExact}

VARIABLES
  lib,            \* the library file behind "lib.so"
  registry,       \* the global registry of module.loadbinary_* loaders
  pc,             \* where module.loadfile_so / the node's life stands
  path,           \* the argument of module.loadfile_so
  lib_handle_,    \* DSOModuleNode::lib_handle_
  imports_,       \* ModuleNode::imports_
  ctx_slot,       \* the content of the library's __tvm_module_ctx slot
  curr_ptr_,      \* the read cursor of the MemoryFixedSizeStream fs
  size,           \* the count read from the blob
  i,              \* the loop index of Init
  libOpen,        \* the platform has the library mapped
  unloadCalls,    \* the handles Unload() was called with, in order
  useAfterUnload, \* dlsym or a native call happened on a released handle
  moduleRef,      \* the host holds the runtime::Module the factory returned
  callables,      \* the non-empty PackedFuncs GetFunction returned
  last,           \* the outcome of the latest GetFunction or invocation
  lastError,      \* the string TVMGetLastError() returns
  threads,        \* the host threads inside GetFunction on the shared module
  error,          \* the message module.loadfile_so threw
  lookups,        \* the keys Registry::Get was asked for, in order
  loads,          \* the loader invocations: type key, cursor before and after,
                  \* the loader called and the module it returned
  symbols         \* the names Init resolved with GetGlobalVPtr, in order

worldVars == <<lib, registry>>
nodeVars == <<lib_handle_, imports_, ctx_slot, curr_ptr_, size, i>>
platformVars == <<libOpen, unloadCalls, useAfterUnload>>
hostVars == <<moduleRef, callables, last, lastError, threads>>
logVars == <<lookups, loads, symbols>>
vars == <<lib, registry, pc, path, lib_handle_, imports_, ctx_slot, curr_ptr_, size,
          i, libOpen, unloadCalls, useAfterUnload, moduleRef, callables, last,
          lastError, threads, error, lookups, loads, symbols>>

\* the TVMArgs of a call with the given values
TVMArgs(values) ==
  [values |-> values, type_codes |-> [k \in 1..Len(values) |-> 0],
   num_args |-> Len(values)]

NoOutcome ==
  [op |-> "none", name |-> "", status |-> "", sym |-> nullptr,
   args |-> TVMArgs(<<>>), received |-> <<>>, ret |-> 0, msg |-> "",
   resolved |-> <<>>]

(***************************************************************************)
(* The platform branch (the #else branch: dlopen, dlsym, dlclose).         *)
(***************************************************************************)
\* the names dlsym finds in the library
Exports ==
  FuncNames
  \cup (IF lib.hasCtx THEN {tvm_module_ctx} ELSE {})
  \cup (IF lib.main # nullptr THEN {tvm_module_main} ELSE {})
  \cup (IF lib.hasBlob THEN {tvm_dev_mblob} ELSE {})
  \cup (IF lib.hasNbytes THEN {tvm_dev_mblob_nbytes} ELSE {})

\* dlopen(name, RTLD_LAZY | RTLD_LOCAL)
Load(name) == IF name = "lib.so" THEN Handle ELSE nullptr

\* dlsym(lib_handle_, name): the symbol's address (named after it) or nullptr
GetGlobalVPtr(name) == IF name \in Exports THEN name ELSE nullptr

GetFuncPtr_(name) == IF name \in Exports THEN name ELSE nullptr

\* a GetFuncPtr without the redirection of the main name
GetFuncPtrLiteral(name) ==
  [fatal |-> FALSE, faddr |-> GetFuncPtr_(name), msg |-> "",
   resolved |-> <<name>>]

\* a GetFuncPtr that takes a symbol that is not there for a failure
GetFuncPtrStrict(name) ==
  LET target == IF name = tvm_module_main /\ lib.main # nullptr
                THEN lib.main ELSE name
  IN [fatal |-> GetFuncPtr_(target) = nullptr, faddr |-> GetFuncPtr_(target),
      msg |-> "Check failed: faddr != nullptr", resolved |-> <<target>>]

\* a GetFuncPtr that falls back on a function named after the main name
GetFuncPtrFallback(name) ==
  LET target == IF name = tvm_module_main /\ lib.main # nullptr
                THEN lib.main ELSE name
  IN [fatal |-> FALSE, faddr |-> GetFuncPtr_(target), msg |-> "",
      resolved |-> <<target>>]

\* the function pointer behind a requested name, or the CHECK that fails;
\* resolved lists the names GetFuncPtr_ was called with
GetFuncPtr(name) ==
  IF name = tvm_module_main
  THEN LET entry_name == GetGlobalVPtr(tvm_module_main)
       IN IF entry_name = nullptr
          THEN [fatal |-> TRUE, faddr |-> nullptr,
                msg |-> "Check failed: entry_name != nullptr Symbol "
                        \o tvm_module_main \o " is not presented",
                resolved |-> <<>>]
          ELSE [fatal |-> FALSE, faddr |-> GetFuncPtr_(lib.main), msg |-> "",
                resolved |-> <<lib.main>>]
  ELSE [fatal |-> FALSE, faddr |-> GetFuncPtr_(name), msg |-> "",
        resolved |-> <<name>>]

(***************************************************************************)
(* dmlc::MemoryFixedSizeStream over (dev_mblob, dev_mblob_nbytes[0]).      *)
(***************************************************************************)
\* Read(ptr, n) at cursor pos: n bytes, or a failed CHECK past the end
StreamRead(pos, n) ==
  IF n >= 0 /\ pos + n <= lib.nbytes
  THEN [ok |-> TRUE, bytes |-> SubSeq(lib.blob, pos + 1, pos + n), pos |-> pos + n]
  ELSE [ok |-> FALSE, bytes |-> <<>>, pos |-> pos]

\* stream->Read(&size) with a uint64_t
ReadU64(pos) ==
  LET r == StreamRead(pos, U64Bytes)
  IN [ok |-> r.ok, val |-> DecodeU64(r.bytes), pos |-> r.pos]

\* stream->Read(&tkey) with a std::string: the length, then the characters
ReadString(pos) ==
  LET n == ReadU64(pos)
  IN IF ~n.ok THEN [ok |-> FALSE, val |-> <<>>, pos |-> pos]
     ELSE LET r == StreamRead(n.pos, n.val)
          IN [ok |-> r.ok, val |-> r.bytes, pos |-> r.pos]

\* Registry::Get(fkey): the loader registered under the key, or nullptr
RegistryGet(fkey) ==
  IF \E t \in TypeKeys : registry[t] # "none" /\ LoadBinaryPrefix \o t = fkey
  THEN registry[CHOOSE t \in TypeKeys : LoadBinaryPrefix \o t = fkey]
  ELSE nullptr

\* (*f)(stream): the loader reads its payload from the shared stream. An
\* "exact" loader reads the length byte and the rest of the payload, a
\* "short" one only the length byte.
CallLoader(kind, tkey, pos) ==
  LET head == StreamRead(pos, 1)
  IN IF ~head.ok THEN [ok |-> FALSE, pos |-> pos, module |-> <<>>]
     ELSE IF kind = "short"
          THEN [ok |-> TRUE, pos |-> head.pos,
                module |-> [tkey |-> tkey, data |-> head.bytes]]
          ELSE LET rest == StreamRead(head.pos, head.bytes[1] - 1)
               IN [ok |-> rest.ok, pos |-> rest.pos,
                   module |-> [tkey |-> tkey, data |-> head.bytes \o rest.bytes]]

(***************************************************************************)
(* Ownership: the node lives while a shared_ptr to it does.                *)
(***************************************************************************)
\* the shared_ptr owners of the node: the host's Module and every live
\* PackedFunc whose closure captured sptr_to_self
RefCount(mref, cs) ==
  (IF mref THEN 1 ELSE 0)
  + Cardinality({k \in DOMAIN cs : cs[k].alive /\ cs[k].self})

\* a destructor that unloads without looking at the handle
DestructorAlwaysUnloads ==
  /\ unloadCalls' = Append(unloadCalls, lib_handle_)
  /\ libOpen' = FALSE

\* ~DSOModuleNode: if (lib_handle_) Unload()
Destructor ==
  IF lib_handle_ # nullptr
  THEN /\ unloadCalls' = Append(unloadCalls, lib_handle_)
       /\ libOpen' = FALSE
  ELSE UNCHANGED <<unloadCalls, libOpen>>

\* a CHECK fails inside Init: the exception leaves module.loadfile_so, the
\* only shared_ptr n goes out of scope and the node is destroyed
Throw(msg) ==
  /\ pc' = "failed"
  /\ error' = msg
  /\ Destructor

\* Init returns and *rv = runtime::Module(n): the host holds the module
Publish ==
  /\ pc' = "loaded"
  /\ moduleRef' = TRUE
  /\ UNCHANGED <<error, unloadCalls, libOpen>>

(***************************************************************************)
(* module.loadfile_so and DSOModuleNode::Init, one step per statement.     *)
(***************************************************************************)
\* the host calls module.loadfile_so(name): make_shared<DSOModuleNode>(),
\* then Init(name) starts with Load(name)
Factory(name) ==
  /\ pc = "idle"
  /\ path' = name
  /\ lib_handle_' = Load(name)
  /\ libOpen' = (Load(name) # nullptr)
  /\ pc' = "init_check"
  /\ UNCHANGED <<worldVars, imports_, ctx_slot, curr_ptr_, size, i, unloadCalls,
                 useAfterUnload, hostVars, error, logVars>>

\* an Init without the CHECK on the handle
InitCheckSkipped ==
  /\ pc = "init_check"
  /\ pc' = "init_ctx"
  /\ UNCHANGED <<worldVars, path, nodeVars, platformVars, hostVars, error, logVars>>

\* CHECK(lib_handle_ != nullptr) << "Failed to load dynamic shared library "
InitCheck ==
  /\ pc = "init_check"
  /\ IF lib_handle_ # nullptr
     THEN /\ pc' = "init_ctx"
          /\ UNCHANGED <<error, unloadCalls, libOpen>>
     ELSE Throw("Check failed: lib_handle_ != nullptr "
                \o "Failed to load dynamic shared library " \o path)
  /\ UNCHANGED <<worldVars, path, nodeVars, useAfterUnload, hostVars, logVars>>

\* an Init that parses the blob only when both symbols are there
HasEmbeddedBlobPaired(dev_mblob, dev_mblob_nbytes) ==
  dev_mblob # nullptr /\ dev_mblob_nbytes # nullptr

\* a loop that tests its condition after the first turn
LoopContinuesInclusive(idx, count) == idx <= count

\* an Init that goes on without the loader
LoaderMissingIgnored(f) == FALSE

\* a loader that was handed a copy of the stream
CursorAfterLoaderCopy(keyEnd, loaderEnd) == keyEnd

\* if (dev_mblob != nullptr) { ... }: only the pointer decides
HasEmbeddedBlob(dev_mblob, dev_mblob_nbytes) == dev_mblob # nullptr

\* the loop condition i < size
LoopContinues(idx, count) == idx < count

\* CHECK(f != nullptr) fails
LoaderMissing(f) == f = nullptr

\* the loader was handed the stream itself (static_cast<void*>(stream)), so
\* the cursor of fs stands where the loader left it
CursorAfterLoader(keyEnd, loaderEnd) == loaderEnd

\* an Init that does not look at what Read returned
CheckReadIgnored(r) == TRUE

\* CHECK(stream->Read(&size)), CHECK(stream->Read(&tkey)): the read went well
CheckRead(r) == r.ok

\* an imports_ that takes the new module in front
PushFront(list, mod) == <<mod>> \o list

\* imports_.push_back(Module(...)): the new module goes to the end
PushBack(list, mod) == Append(list, mod)

\* an Init that resolves the slot and leaves it alone
CtxSlotKept(ctx_addr, slot) == slot

\* if (ctx_addr != nullptr) *ctx_addr = this: what the slot holds afterwards
CtxSlotAfter(ctx_addr, slot) == IF ctx_addr # nullptr THEN This ELSE slot

\* ctx_addr = GetGlobalVPtr(tvm_module_ctx); if (ctx_addr) *ctx_addr = this
InitCtx ==
  /\ pc = "init_ctx"
  /\ symbols' = Append(symbols, tvm_module_ctx)
  /\ ctx_slot' = CtxSlotAfter(GetGlobalVPtr(tvm_module_ctx), ctx_slot)
  /\ useAfterUnload' = (useAfterUnload \/ ~libOpen)
  /\ pc' = "init_blob"
  /\ UNCHANGED <<worldVars, path, lib_handle_, imports_, curr_ptr_, size, i,
                 libOpen, unloadCalls, hostVars, error, lookups, loads>>

\* dev_mblob and dev_mblob_nbytes are resolved; without dev_mblob Init
\* returns, with it CHECK(dev_mblob_nbytes != nullptr) and fs is set up
InitBlob ==
  /\ pc = "init_blob"
  /\ symbols' = symbols \o <<tvm_dev_mblob, tvm_dev_mblob_nbytes>>
  /\ useAfterUnload' = (useAfterUnload \/ ~libOpen)
  /\ LET dev_mblob == GetGlobalVPtr(tvm_dev_mblob)
         dev_mblob_nbytes == GetGlobalVPtr(tvm_dev_mblob_nbytes)
     IN IF ~HasEmbeddedBlob(dev_mblob, dev_mblob_nbytes)
        THEN /\ Publish
             /\ UNCHANGED curr_ptr_
        ELSE IF dev_mblob_nbytes = nullptr
        THEN /\ Throw("Check failed: dev_mblob_nbytes != nullptr")
             /\ UNCHANGED <<curr_ptr_, moduleRef>>
        ELSE /\ pc' = "init_count"
             /\ curr_ptr_' = 0
             /\ UNCHANGED <<error, unloadCalls, libOpen, moduleRef>>
  /\ UNCHANGED <<worldVars, path, lib_handle_, imports_, ctx_slot, size, i,
                 callables, last, lastError, threads, lookups, loads>>

\* uint64_t size; CHECK(stream->Read(&size))
InitCount ==
  /\ pc = "init_count"
  /\ LET r == ReadU64(curr_ptr_)
     IN IF CheckRead(r)
        THEN /\ size' = r.val
             /\ curr_ptr_' = r.pos
             /\ i' = 0
             /\ pc' = "init_loop"
             /\ UNCHANGED <<error, unloadCalls, libOpen>>
        ELSE /\ Throw("Check failed: stream->Read(&size)")
             /\ UNCHANGED <<size, curr_ptr_, i>>
  /\ UNCHANGED <<worldVars, path, lib_handle_, imports_, ctx_slot,
                 useAfterUnload, hostVars, logVars>>

\* One turn of for (i = 0; i < size; ++i): the type key is read, its loader
\* looked up and called on the stream, the module appended. With i = size
\* the loop is over and Init returns.
InitLoop ==
  /\ pc = "init_loop"
  /\ IF LoopContinues(i, size)
     THEN LET k == ReadString(curr_ptr_)
              fkey == LoadBinaryPrefix \o k.val
              f == RegistryGet(fkey)
              m == CallLoader(f, k.val, k.pos)
          IN IF ~CheckRead(k)
             THEN /\ Throw("Check failed: stream->Read(&tkey)")
                  /\ curr_ptr_' = k.pos
                  /\ UNCHANGED <<i, imports_, lookups, loads, moduleRef>>
             ELSE IF LoaderMissing(f)
             THEN /\ Throw("Check failed: f != nullptr Loader is not presented.")
                  /\ lookups' = Append(lookups, fkey)
                  /\ curr_ptr_' = k.pos
                  /\ UNCHANGED <<i, imports_, loads, moduleRef>>
             ELSE /\ lookups' = Append(lookups, fkey)
                  /\ loads' = Append(loads, [tkey |-> k.val, keyAt |-> curr_ptr_,
                                             from |-> k.pos, to |-> m.pos,
                                             loader |-> f, module |-> m.module])
                  /\ curr_ptr_' = CursorAfterLoader(k.pos, m.pos)
                  /\ IF m.ok
                     THEN /\ imports_' = PushBack(imports_, m.module)
                          /\ i' = i + 1
                          /\ UNCHANGED <<pc, error, unloadCalls, libOpen>>
                     ELSE /\ Throw("Check failed: curr_ptr_ + size <= buffer_size_")
                          /\ UNCHANGED <<imports_, i>>
                  /\ UNCHANGED moduleRef
     ELSE /\ Publish
          /\ UNCHANGED <<curr_ptr_, i, imports_, lookups, loads>>
  /\ UNCHANGED <<worldVars, path, lib_handle_, ctx_slot, size, useAfterUnload,
                 callables, last, lastError, threads, symbols>>

(***************************************************************************)
(* The published module: GetFunction and the PackedFuncs it returns.       *)
(***************************************************************************)
\* what (*faddr)(args.values, args.type_codes, args.num_args) hands over
NativeArgs(args) == <<args.values, args.type_codes, args.num_args>>

IntToString(n) == IF n = 0 THEN "0" ELSE IF n = 1 THEN "1" ELSE "-1"

\* a CHECK_EQ(ret, 0) that does not stream TVMGetLastError()
CheckEqMessageNoError(ret, lasterr) ==
  "Check failed: ret == 0 (" \o IntToString(ret) \o " vs. 0) "

\* the message of CHECK_EQ(ret, 0) << TVMGetLastError()
CheckEqMessage(ret, lasterr) ==
  "Check failed: ret == 0 (" \o IntToString(ret) \o " vs. 0) " \o lasterr

\* the closure [faddr, sptr_to_self]: it owns a reference to the node
\* a closure that captures faddr alone
PackedFuncNoSelf(req, faddr) ==
  [req |-> req, sym |-> faddr, self |-> FALSE, alive |-> TRUE]

\* (req, the name GetFunction was asked for, is kept for the record)
PackedFunc(req, faddr) ==
  [req |-> req, sym |-> faddr, self |-> TRUE, alive |-> TRUE]

\* what is left of a PackedFunc the host dropped
Dropped == [req |-> "", sym |-> nullptr, self |-> FALSE, alive |-> FALSE]

\* the host holds the module and asks it for a function
GetFunction(name) ==
  /\ pc = "loaded"
  /\ moduleRef
  /\ useAfterUnload' = (useAfterUnload \/ ~libOpen)
  /\ LET r == GetFuncPtr(name)
     IN IF r.fatal
        THEN /\ last' = [NoOutcome EXCEPT !.op = "GetFunction", !.name = name,
                                          !.status = "fatal", !.msg = r.msg,
                                          !.resolved = r.resolved]
             /\ UNCHANGED callables
        ELSE IF r.faddr = nullptr
        THEN /\ last' = [NoOutcome EXCEPT !.op = "GetFunction", !.name = name,
                                          !.status = "empty",
                                          !.resolved = r.resolved]
             /\ UNCHANGED callables
        ELSE /\ Len(callables) < MaxCallables
             /\ last' = [NoOutcome EXCEPT !.op = "GetFunction", !.name = name,
                                          !.status = "callable", !.sym = r.faddr,
                                          !.resolved = r.resolved]
             /\ callables' = Append(callables, PackedFunc(name, r.faddr))
  /\ UNCHANGED <<worldVars, pc, path, nodeVars, libOpen, unloadCalls, moduleRef,
                 lastError, threads, error, logVars>>

\* a thread that is not inside GetFunction; got is the index in callables of
\* the PackedFunc its latest call returned, 0 when it returned none
IdleThread ==
  [pc |-> "idle", name |-> "", faddr |-> nullptr, status |-> "", got |-> 0]

\* Thread t enters GetFunction(name) on the published module and runs
\* faddr = GetFuncPtr(name): dlsym reads, nothing of the node is written.
\* A failed CHECK leaves the call with the exception.
GetFunctionResolve(t, name) ==
  /\ pc = "loaded"
  /\ moduleRef
  /\ threads[t].pc = "idle"
  /\ useAfterUnload' = (useAfterUnload \/ ~libOpen)
  /\ LET r == GetFuncPtr(name)
     IN threads' = [threads EXCEPT ![t] =
                      IF r.fatal
                      THEN [IdleThread EXCEPT !.name = name, !.status = "fatal"]
                      ELSE [IdleThread EXCEPT !.pc = "resolved", !.name = name,
                                              !.faddr = r.faddr]]
  /\ UNCHANGED <<worldVars, pc, path, nodeVars, libOpen, unloadCalls, moduleRef,
                 callables, last, lastError, error, logVars>>

\* a GetFunction that hands out the PackedFunc it made earlier for the
\* same symbol
GetFunctionReturnCached(t) ==
  /\ pc = "loaded"
  /\ threads[t].pc = "resolved"
  /\ LET faddr == threads[t].faddr
         made == {k \in DOMAIN callables : callables[k].sym = faddr}
     IN IF faddr = nullptr
        THEN /\ threads' = [threads EXCEPT ![t].pc = "idle", ![t].status = "empty"]
             /\ UNCHANGED callables
        ELSE IF made # {}
        THEN /\ threads' = [threads EXCEPT ![t].pc = "idle",
                                            ![t].status = "callable",
                                            ![t].got = CHOOSE k \in made : TRUE]
             /\ UNCHANGED callables
        ELSE /\ Len(callables) < MaxCallables
             /\ callables' = Append(callables, PackedFunc(threads[t].name, faddr))
             /\ threads' = [threads EXCEPT ![t].pc = "idle",
                                            ![t].status = "callable",
                                            ![t].got = Len(callables) + 1]
  /\ UNCHANGED <<worldVars, pc, path, nodeVars, platformVars, moduleRef, last,
                 lastError, error, logVars>>

\* Thread t leaves GetFunction: if (faddr == nullptr) return PackedFunc();
\* otherwise a PackedFunc newly built around [faddr, sptr_to_self]
GetFunctionReturn(t) ==
  /\ pc = "loaded"
  /\ threads[t].pc = "resolved"
  /\ LET faddr == threads[t].faddr
     IN IF faddr = nullptr
        THEN /\ threads' = [threads EXCEPT ![t].pc = "idle", ![t].status = "empty"]
             /\ UNCHANGED callables
        ELSE /\ Len(callables) < MaxCallables
             /\ callables' = Append(callables, PackedFunc(threads[t].name, faddr))
             /\ threads' = [threads EXCEPT ![t].pc = "idle",
                                            ![t].status = "callable",
                                            ![t].got = Len(callables) + 1]
  /\ UNCHANGED <<worldVars, pc, path, nodeVars, platformVars, moduleRef, last,
                 lastError, error, logVars>>

\* an invocation after whose failure the PackedFunc is unusable
InvokeInvalidates(c, values, ret, sets, err) ==
  /\ c \in DOMAIN callables
  /\ callables[c].alive
  /\ useAfterUnload' = (useAfterUnload \/ ~libOpen)
  /\ lastError' = IF sets THEN err ELSE lastError
  /\ last' = [op |-> "Invoke", name |-> callables[c].req,
              status |-> IF ret = 0 THEN "ok" ELSE "error",
              sym |-> callables[c].sym,
              args |-> TVMArgs(values),
              received |-> NativeArgs(TVMArgs(values)),
              ret |-> ret,
              msg |-> IF ret = 0 THEN "" ELSE CheckEqMessage(ret, lastError'),
              resolved |-> <<>>]
  /\ callables' = IF ret = 0 THEN callables
                  ELSE [callables EXCEPT ![c].self = FALSE, ![c].alive = FALSE]
  /\ UNCHANGED <<worldVars, pc, path, nodeVars, libOpen, unloadCalls, moduleRef,
                 threads, error, logVars>>

\* A live PackedFunc is invoked: the native function runs, records the
\* error err with TVMAPISetLastError if it sets one, and returns ret; then
\* CHECK_EQ(ret, 0) << TVMGetLastError().
Invoke(c, values, ret, sets, err) ==
  /\ c \in DOMAIN callables
  /\ callables[c].alive
  /\ useAfterUnload' = (useAfterUnload \/ ~libOpen)
  /\ lastError' = IF sets THEN err ELSE lastError
  /\ last' = [op |-> "Invoke", name |-> callables[c].req,
              status |-> IF ret = 0 THEN "ok" ELSE "error",
              sym |-> callables[c].sym,
              args |-> TVMArgs(values),
              received |-> NativeArgs(TVMArgs(values)),
              ret |-> ret,
              msg |-> IF ret = 0 THEN "" ELSE CheckEqMessage(ret, lastError'),
              resolved |-> <<>>]
  /\ UNCHANGED <<worldVars, pc, path, nodeVars, libOpen, unloadCalls, moduleRef,
                 callables, threads, error, logVars>>

\* a release that destroys the node whoever else still owns it
ReleaseNodeAlways(mref, cs) ==
  IF pc \in {"loaded", "destroyed"}
  THEN /\ pc' = "destroyed"
       /\ Destructor
  ELSE UNCHANGED <<pc, unloadCalls, libOpen>>

\* the last owner lets go: the node is destroyed
ReleaseNode(mref, cs) ==
  IF RefCount(mref, cs) = 0 /\ pc = "loaded"
  THEN /\ pc' = "destroyed"
       /\ Destructor
  ELSE UNCHANGED <<pc, unloadCalls, libOpen>>

\* the host drops its Module
DropModule ==
  /\ moduleRef
  /\ moduleRef' = FALSE
  /\ ReleaseNode(FALSE, callables)
  /\ UNCHANGED <<worldVars, path, nodeVars, useAfterUnload, callables, last,
                 lastError, threads, error, logVars>>

\* the host drops a PackedFunc
DropCallable(c) ==
  /\ c \in DOMAIN callables
  /\ callables[c].alive
  /\ callables' = [callables EXCEPT ![c] = Dropped]
  /\ ReleaseNode(moduleRef, callables')
  /\ UNCHANGED <<worldVars, path, nodeVars, useAfterUnload, moduleRef, last,
                 lastError, threads, error, logVars>>

\* the state before module.loadfile_so is called, in one of the worlds
Start(worlds) ==
  /\ \E w \in worlds : lib = w[1] /\ registry = w[2]
  /\ pc = "idle"
  /\ path = ""
  /\ lib_handle_ = nullptr
  /\ imports_ = <<>>
  /\ ctx_slot = nullptr
  /\ curr_ptr_ = 0
  /\ size = 0
  /\ i = 0
  /\ libOpen = FALSE
  /\ unloadCalls = <<>>
  /\ useAfterUnload = FALSE
  /\ moduleRef = FALSE
  /\ callables = <<>>
  /\ last = NoOutcome
  /\ lastError = ""
  /\ threads = [t \in Threads |-> IdleThread]
  /\ error = ""
  /\ lookups = <<>>
  /\ loads = <<>>
  /\ symbols = <<>>

Init == Start(CallWorlds)

InitLoad == Start(LoadWorlds)

Next ==
  \/ \E name \in Paths : Factory(name)
  \/ InitCheck
  \/ InitCtx
  \/ InitBlob
  \/ InitCount
  \/ InitLoop
  \/ \E name \in Names : GetFunction(name)
  \/ \E c \in 1..MaxCallables, values \in ArgLists, ret \in RetCodes,
        sets \in BOOLEAN :
       \E err \in IF sets THEN ErrStrings ELSE {lastError} :
         Invoke(c, values, ret, sets, err)
  \/ DropModule
  \/ \E c \in 1..MaxCallables : DropCallable(c)

Spec == Init /\ [][Next]_vars

\* module.loadfile_so on every library, and the host dropping the module
NextLoad ==
  \/ \E name \in Paths : Factory(name)
  \/ InitCheck
  \/ InitCtx
  \/ InitBlob
  \/ InitCount
  \/ InitLoop
  \/ DropModule

SpecLoad == InitLoad /\ [][NextLoad]_vars

\* module.loadfile_so, then threads calling GetFunction on the one module
NextThreads ==
  \/ \E name \in Paths : Factory(name)
  \/ InitCheck
  \/ InitCtx
  \/ InitBlob
  \/ InitCount
  \/ InitLoop
  \/ \E t \in Threads, name \in Names : GetFunctionResolve(t, name)
  \/ \E t \in Threads : GetFunctionReturn(t)

SpecThreads == Init /\ [][NextThreads]_vars

(***************************************************************************)
(* Properties.                                                             *)
(***************************************************************************)
\* Init has returned or thrown
InitOver == pc \in {"loaded", "failed", "destroyed"}

Succeeded == pc \in {"loaded", "destroyed"}

\* C1 as stated: Init succeeds if and only if Load returned a non-null
\* handle.
C1_SucceedsIffHandle ==
  InitOver => (Succeeded <=> lib_handle_ # nullptr)

\* C1: Init succeeds only if Load returned a non-null handle, and always
\* fails when the handle is null; on a library without the embedded-blob
\* pointer it succeeds exactly when the handle is non-null. It can also fail
\* with a non-null handle while loading the embedded blob. Whenever it
\* fails it fails with an error message and the node has been destroyed
\* safely: Unload ran once on the non-null handle, or not at all when Load
\* returned null.
C1_InitOutcome ==
  /\ Succeeded => lib_handle_ # nullptr
  /\ (pc \notin {"idle", "init_check"} /\ lib_handle_ = nullptr) => pc = "failed"
  /\ (InitOver /\ ~lib.hasBlob) => (Succeeded <=> lib_handle_ # nullptr)
  /\ pc = "failed" =>
       /\ error # ""
       /\ ~libOpen
       /\ unloadCalls = IF lib_handle_ # nullptr THEN <<Handle>> ELSE <<>>

\* Init failed on a library that was opened, and the handle was released
C1_Witness ==
  /\ pc = "failed"
  /\ lib_handle_ # nullptr
  /\ unloadCalls = <<Handle>>
  /\ error # ""

\* the symbol GetFuncPtr looks up for a requested name
Target(name) ==
  IF name = tvm_module_main THEN lib.main ELSE name

\* C2 as stated: a GetFunction that resolves no symbol returns the empty
\* PackedFunc, never a fatal error, whatever name is requested.
C2_NeverFatal ==
  (last.op = "GetFunction" /\ last.status # "callable") => last.status = "empty"

\* C2: on a loaded module, GetFunction with a name whose symbol is not
\* exported returns the empty PackedFunc and raises no fatal error, for every
\* requested name except the main name on a library that does not export
\* the entry-point indirection symbol; in that one case GetFunction is fatal.
C2_NotFoundIsEmpty ==
  last.op = "GetFunction" =>
    IF last.name = tvm_module_main /\ lib.main = nullptr
    THEN last.status = "fatal"
    ELSE /\ last.status # "fatal"
         /\ Target(last.name) \notin Exports <=> last.status = "empty"

\* a name that is not exported was asked for and came back empty
C2_Witness ==
  /\ last.op = "GetFunction"
  /\ last.name = "baz"
  /\ last.status = "empty"
  /\ pc = "loaded"

\* C3: with the indirection symbol exported with value S, GetFunction of
\* the main name resolves the symbol S and the PackedFunc it returns invokes
\* S, not a symbol named after the main name; for every other name the
\* symbol resolved and invoked is the requested name.
C3_MainRedirects ==
  /\ (last.op = "GetFunction" /\ last.status = "callable") =>
       /\ last.sym = Target(last.name)
       /\ last.sym \in FuncNames
  /\ \A c \in DOMAIN callables :
       callables[c].alive => callables[c].sym = Target(callables[c].req)
  /\ (last.op = "Invoke") =>
       /\ last.sym = Target(last.name)
       /\ last.name = tvm_module_main => last.sym # tvm_module_main

\* the PackedFunc obtained under the main name ran the symbol "foo"
C3_Witness ==
  /\ last.op = "Invoke"
  /\ last.name = tvm_module_main
  /\ lib.main = "foo"
  /\ last.sym = "foo"

\* where record j of a catalog starts in its blob, and where its key ends
RECURSIVE RecordStart(_, _)
RecordStart(recs, j) ==
  IF j = 1 THEN U64Bytes
  ELSE RecordStart(recs, j - 1) + U64Bytes + Len(recs[j - 1].tkey)
       + recs[j - 1].len

KeyEnd(recs, j) == RecordStart(recs, j) + U64Bytes + Len(recs[j].tkey)

\* Init reached the parsing of a blob written from lib.recs
Parsed == InitOver /\ lib_handle_ # nullptr /\ ParsesBlob(lib)

\* record j is the first of the catalog without a registered loader, the
\* loaders of the records before it consume exactly their payloads, and the
\* blob holds the count and everything up to the end of record j's key
FirstUnregisteredAt(j) ==
  /\ j <= lib.count
  /\ registry[lib.recs[j].tkey] = "none"
  /\ \A k \in 1..(j - 1) : registry[lib.recs[k].tkey] = "exact"
  /\ KeyEnd(lib.recs, j) <= lib.nbytes

\* C4: when the first record with an unregistered type key is record j
\* (counted from 1), Init fails at that record: the loaders of the records
\* before it have been invoked, in order, the registry has been asked for
\* the keys of records 1..j and for nothing after, and no loader ran for
\* record j or any later one. In every run a failed registry lookup is the
\* last thing the loop does.
C4_FailsAtFirstUnregistered ==
  /\ \A j \in 1..Len(lib.recs) :
       (Parsed /\ FirstUnregisteredAt(j)) =>
         /\ pc = "failed"
         /\ error = "Check failed: f != nullptr Loader is not presented."
         /\ lookups = [k \in 1..j |-> LoadBinaryPrefix \o lib.recs[k].tkey]
         /\ Len(loads) = j - 1
         /\ \A k \in 1..(j - 1) : loads[k].tkey = lib.recs[k].tkey
         /\ Len(imports_) = j - 1
  /\ Len(lookups) - Len(loads) \in {0, 1}
  /\ \A k \in 1..(Len(lookups) - 1) : RegistryGet(lookups[k]) # nullptr
  /\ Len(lookups) > Len(loads) => pc = "failed"

\* the catalog x, y with only x registered: x was loaded, y failed the load
C4_Witness ==
  /\ pc = "failed"
  /\ registry[KeyX] = "exact"
  /\ registry[KeyY] = "none"
  /\ lookups = <<LoadBinaryPrefix \o KeyX, LoadBinaryPrefix \o KeyY>>
  /\ Len(loads) = 1
  /\ loads[1].tkey = KeyX

\* C5 as stated: with either blob symbol absent Init ends successfully with
\* no imports.
C5_EitherAbsentSucceeds ==
  (InitOver /\ lib_handle_ # nullptr /\ (~lib.hasBlob \/ ~lib.hasNbytes)) =>
    (Succeeded /\ imports_ = <<>>)

\* C5: if the embedded-blob pointer symbol is absent, with or without the
\* length symbol, Init ends successfully with an empty imports list and no
\* registry lookup, whether or not the module-context symbol is exported;
\* if the pointer symbol is present and the length symbol absent, Init
\* fails on CHECK(dev_mblob_nbytes != nullptr).
C5_BlobPointerDecides ==
  /\ (InitOver /\ lib_handle_ # nullptr /\ ~lib.hasBlob) =>
       (Succeeded /\ imports_ = <<>> /\ lookups = <<>> /\ loads = <<>>)
  /\ (InitOver /\ lib_handle_ # nullptr /\ lib.hasBlob /\ ~lib.hasNbytes) =>
       (pc = "failed" /\ error = "Check failed: dev_mblob_nbytes != nullptr"
        /\ imports_ = <<>>)

\* a library with the length symbol alone was loaded, with no imports
C5_Witness ==
  /\ pc = "loaded"
  /\ ~lib.hasBlob
  /\ lib.hasNbytes
  /\ ~lib.hasCtx
  /\ imports_ = <<>>

\* C6 as stated: a non-zero status makes the call fail with exactly the
\* last-error string.
C6_ErrorIsLastError ==
  (last.op = "Invoke" /\ last.ret # 0) =>
    (last.status = "error" /\ last.msg = lastError)

\* C6: an invocation hands the native function args.values,
\* args.type_codes and args.num_args as they are; status 0 makes the call
\* succeed; any other status makes it fail, and the reported message is the
\* text of the failed CHECK_EQ(ret, 0), "Check failed: ret == 0 (<ret> vs.
\* 0) ", followed by exactly the last-error string of the native side.
C6_ForwardsAndReports ==
  last.op = "Invoke" =>
    /\ last.received = <<last.args.values, last.args.type_codes,
                         last.args.num_args>>
    /\ last.args.num_args = Len(last.args.values)
    /\ last.ret = 0 => (last.status = "ok" /\ last.msg = "")
    /\ last.ret # 0 =>
         /\ last.status = "error"
         /\ last.msg = "Check failed: ret == 0 ("
                       \o (IF last.ret = 1 THEN "1" ELSE "-1")
                       \o " vs. 0) " \o lastError

\* a native function recorded "e2" and returned -1
C6_Witness ==
  /\ last.op = "Invoke"
  /\ last.ret = -1
  /\ lastError = "e2"
  /\ last.status = "error"
  /\ last.args.values = <<7>>

\* C7: nothing is resolved or invoked on a released handle, and while a
\* PackedFunc that GetFunction resolved is alive the node is not destroyed
\* and its library stays open, also after the host dropped its Module.
C7_NoUseAfterUnload ==
  /\ ~useAfterUnload
  /\ \A c \in DOMAIN callables :
       callables[c].alive =>
         (pc = "loaded" /\ libOpen /\ unloadCalls = <<>>)
  /\ pc = "destroyed" =>
       (~moduleRef /\ \A c \in DOMAIN callables : ~callables[c].alive)

\* the host dropped its Module and a PackedFunc alone keeps the node alive
C7_Witness ==
  /\ ~moduleRef
  /\ pc = "loaded"
  /\ libOpen
  /\ \E c \in DOMAIN callables : callables[c].alive
  /\ last.op = "Invoke"

AllRecordsExact == \A k \in 1..Len(lib.recs) : registry[lib.recs[k].tkey] = "exact"

\* the module an exact loader returns for record k of the catalog
ModuleOf(k) ==
  [tkey |-> lib.recs[k].tkey, data |-> Payload(k, lib.recs[k].len)]

C8_Chain ==
  /\ \A k \in 1..Len(loads) :
       /\ loads[k].keyAt <= loads[k].from
       /\ loads[k].from <= loads[k].to
       /\ loads[k].keyAt = IF k = 1 THEN U64Bytes ELSE loads[k - 1].to
  /\ Len(loads) > 0 => curr_ptr_ >= loads[Len(loads)].to
  /\ curr_ptr_ <= lib.nbytes
  /\ \A k \in 1..Len(imports_) :
       (k <= Len(lib.recs)
        /\ \A j \in 1..k : registry[lib.recs[j].tkey] = "exact") =>
         /\ imports_[k] = ModuleOf(k)
         /\ loads[k].keyAt = RecordStart(lib.recs, k)
         /\ loads[k].from = KeyEnd(lib.recs, k)
         /\ loads[k].to = loads[k].from + lib.recs[k].len
  /\ (Parsed /\ AllRecordsExact /\ lib.count = Len(lib.recs)
      /\ lib.nbytes = Len(lib.blob)) =>
       (Succeeded /\ Len(imports_) = Len(lib.recs)
        /\ curr_ptr_ = lib.nbytes)

\* C8: all records are read through one cursor that only moves forward:
\* the key of the first record is read right after the count, the key of
\* every later record exactly where the loader before it stopped, and when
\* the loaders consume exactly their payloads every record of the catalog
\* is found at its place and loaded, in order, whatever the payload lengths.
C8_SharedForwardCursor ==
  /\ []C8_Chain
  /\ [][curr_ptr_' >= curr_ptr_]_vars

\* two records with payloads of different lengths were loaded in order
C8_Witness ==
  /\ pc = "loaded"
  /\ Len(imports_) = 2
  /\ imports_[1] = ModuleOf(1)
  /\ imports_[2] = ModuleOf(2)
  /\ Len(imports_[1].data) # Len(imports_[2].data)
  /\ loads[2].keyAt = loads[1].to

\* C9: when both blob symbols are present and the blob encodes the count
\* 0, Init succeeds without a registry lookup or a loader invocation, and
\* the imports list is empty.
C9_EmptyCatalog ==
  (Parsed /\ lib.count = 0 /\ lib.nbytes >= U64Bytes) =>
    /\ Succeeded
    /\ size = 0
    /\ imports_ = <<>>
    /\ lookups = <<>>
    /\ loads = <<>>
    /\ curr_ptr_ = U64Bytes

\* a blob with count 0 was parsed and the module published
C9_Witness ==
  /\ pc = "loaded"
  /\ ParsesBlob(lib)
  /\ lib.count = 0
  /\ curr_ptr_ = U64Bytes
  /\ imports_ = <<>>

Gone == pc \in {"failed", "destroyed"}

C11_UnloadState ==
  /\ Len(unloadCalls) <= 1
  /\ \A k \in 1..Len(unloadCalls) : unloadCalls[k] # nullptr
  /\ ~Gone => unloadCalls = <<>>
  /\ Gone => unloadCalls = IF lib_handle_ # nullptr THEN <<Handle>> ELSE <<>>
  /\ libOpen <=> (lib_handle_ # nullptr /\ ~Gone)

\* C11: in the life of a node Unload is called at most once and never with
\* a null handle: exactly once, at destruction, when Load produced a handle
\* (also when Init failed after Load), and never when Load produced null;
\* once the node is unloaded it never becomes loaded again.
C11_UnloadOnce ==
  /\ []C11_UnloadState
  /\ [][Gone => (pc' = pc /\ ~libOpen' /\ unloadCalls' = unloadCalls
                 /\ lib_handle_' = lib_handle_)]_vars

\* the last PackedFunc was dropped after the Module: one Unload, of the handle
C11_Witness ==
  /\ pc = "destroyed"
  /\ unloadCalls = <<Handle>>
  /\ ~libOpen
  /\ Len(callables) > 0

\* what the threads hold: a call that returned a PackedFunc holds one made
\* for the name it asked for, and no two threads hold the same one
C12_OwnCallable ==
  /\ \A t \in Threads :
       /\ threads[t].status = "callable" <=> threads[t].got # 0
       /\ threads[t].got # 0 =>
            /\ threads[t].got \in DOMAIN callables
            /\ callables[threads[t].got].alive
            /\ callables[threads[t].got].req = threads[t].name
            /\ callables[threads[t].got].sym = Target(threads[t].name)
  /\ \A t, u \in Threads :
       (t # u /\ threads[t].got # 0) => threads[t].got # threads[u].got

\* C12: once the module is published, the steps of GetFunction calls of
\* several threads, interleaved in any order, leave the handle, the imports
\* and the library's state as they were; a call that returns a PackedFunc
\* returns one that did not exist before and that no other call holds, and
\* the PackedFuncs handed out earlier stay as they are. imports_ changes
\* only while Init runs its loop.
C12_ConcurrentGetFunction ==
  /\ []C12_OwnCallable
  /\ [][pc = "loaded" =>
         /\ pc' = "loaded"
         /\ <<lib_handle_, imports_, ctx_slot, libOpen, unloadCalls, moduleRef>>'
              = <<lib_handle_, imports_, ctx_slot, libOpen, unloadCalls, moduleRef>>
         /\ \A k \in DOMAIN callables :
              k \in DOMAIN callables' /\ callables'[k] = callables[k]
         /\ \A t \in Threads :
              (threads'[t].got # 0 /\ threads'[t] # threads[t]) =>
                /\ threads'[t].got \notin DOMAIN callables
                /\ DOMAIN callables' = DOMAIN callables \cup {threads'[t].got}]_vars
  /\ [][imports_' # imports_ => pc = "init_loop"]_vars

\* two threads asked for the same name on a module with two imports, and
\* each came back with a PackedFunc of its own
C12_Witness ==
  /\ pc = "loaded"
  /\ Len(imports_) = 2
  /\ threads["t1"].status = "callable"
  /\ threads["t2"].status = "callable"
  /\ threads["t1"].name = threads["t2"].name
  /\ threads["t1"].got = 2
  /\ threads["t2"].got = 1

\* C13: module.loadfile_so hands a module to the host only when Init
\* returned without an error, and a module the host holds, or that a
\* PackedFunc keeps alive, has a non-null handle of a library that is open,
\* the same from publication until the node is destroyed; when Init fails
\* the factory throws, with a message, and the host holds no module and no
\* PackedFunc of it.
C13_PublishedHasHandle ==
  /\ [](moduleRef => (pc = "loaded" /\ error = ""))
  /\ [](pc = "loaded" => (lib_handle_ = Handle /\ libOpen /\ error = ""))
  /\ [](pc = "failed" => (/\ ~moduleRef
                          /\ error # ""
                          /\ callables = <<>>
                          /\ last = NoOutcome))
  /\ [][(moduleRef' /\ ~moduleRef) =>
          (pc \in {"init_blob", "init_loop"} /\ pc' = "loaded")]_vars
  /\ [][pc = "loaded" => lib_handle_' = lib_handle_]_vars
  /\ [][pc = "failed" => (pc' = "failed" /\ ~moduleRef')]_vars

\* the host holds the module of a library with two imports and has called
\* into it; the handle is the one Load returned
C13_Witness ==
  /\ moduleRef
  /\ pc = "loaded"
  /\ lib_handle_ = Handle
  /\ Len(imports_) = 2
  /\ last.op = "Invoke"
  /\ last.status = "ok"

\* C14: GetFunction of the main name on a library that does not export the
\* entry-point indirection symbol ends in a fatal error with a message, not
\* in the empty PackedFunc, and calls GetFuncPtr_ for no function symbol,
\* whether or not the library exports functions; no PackedFunc is made.
C14_MainWithoutIndirection ==
  /\ [](last.op = "GetFunction" /\ last.name = tvm_module_main
                                /\ lib.main = nullptr =>
          /\ last.status = "fatal"
          /\ last.msg # ""
          /\ last.resolved = <<>>
          /\ last.sym = nullptr)
  /\ [][(last'.op = "GetFunction" /\ last'.name = tvm_module_main
                                  /\ lib.main = nullptr /\ last' # last) =>
          callables' = callables]_vars

\* the main name was asked for on a loaded library that exports "foo" and
\* "bar" but no indirection symbol, and the call was fatal
C14_Witness ==
  /\ pc = "loaded"
  /\ lib.main = nullptr
  /\ "foo" \in Exports
  /\ last.op = "GetFunction"
  /\ last.name = tvm_module_main
  /\ last.status = "fatal"
  /\ last.resolved = <<>>

\* C15: after Init succeeded on a blob with count N, imports_ has exactly N
\* entries; the k-th entry is the module returned by the loader that the
\* registry holds under "module.loadbinary_" followed by the type key of the
\* k-th record; the loaders were called once per record, in the order of the
\* records in the blob.
C15_ImportsFollowRecords ==
  (Parsed /\ Succeeded) =>
    /\ size = lib.count
    /\ Len(imports_) = size
    /\ Len(loads) = size
    /\ Len(lookups) = size
    /\ \A k \in 1..size :
         /\ k <= Len(lib.recs)
         /\ loads[k].tkey = lib.recs[k].tkey
         /\ loads[k].keyAt = RecordStart(lib.recs, k)
         /\ lookups[k] = LoadBinaryPrefix \o lib.recs[k].tkey
         /\ loads[k].loader = registry[lib.recs[k].tkey]
         /\ loads[k].loader # "none"
         /\ imports_[k] = loads[k].module
         /\ imports_[k] = CallLoader(registry[lib.recs[k].tkey],
                                     lib.recs[k].tkey, loads[k].from).module
         /\ imports_[k].tkey = lib.recs[k].tkey
         /\ \A j \in 1..size : j < k => loads[j].keyAt < loads[k].keyAt

\* Init succeeded on the catalog y, x: two imports, y's module first
C15_Witness ==
  /\ pc = "loaded"
  /\ size = 2
  /\ Len(imports_) = 2
  /\ imports_[1].tkey = KeyY
  /\ imports_[2].tkey = KeyX
  /\ imports_[1].data # imports_[2].data

\* what the module-context slot of the library must hold once InitCtx ran
SlotWritten == IF lib.hasCtx THEN This ELSE nullptr

C16_InitState ==
  /\ symbols \in {<<>>, <<tvm_module_ctx>>,
                   <<tvm_module_ctx, tvm_dev_mblob, tvm_dev_mblob_nbytes>>}
  /\ symbols # <<>> => lib_handle_ # nullptr
  /\ pc \in {"init_ctx", "init_blob", "init_count", "init_loop"} =>
       (lib_handle_ # nullptr /\ libOpen)
  /\ symbols = <<>> =>
       (ctx_slot = nullptr /\ lookups = <<>> /\ loads = <<>> /\ ~Succeeded)
  /\ symbols # <<>> => ctx_slot = SlotWritten
  /\ (lib_handle_ # nullptr /\ pc \notin {"init_check", "init_ctx", "init_blob"}) =>
       Len(symbols) = 3
  /\ (Succeeded /\ lib.hasCtx) => ctx_slot = This
  /\ ~lib.hasCtx => ctx_slot = nullptr

\* C16: Init resolves the module-context symbol only after Load gave a
\* non-null handle. When the library exports the slot, the address of this
\* node is in it before a blob symbol is resolved and before a loader is
\* looked up or called; when it does not, nothing is written and Init goes
\* on to the blob symbols. After a successful Init on a library that
\* exports the slot, the slot holds the address of this node.
C16_ContextBeforeBlob ==
  /\ []C16_InitState
  /\ [][(symbols' # symbols /\ symbols = <<>>) =>
          (lib_handle_ # nullptr /\ symbols' = <<tvm_module_ctx>>
           /\ ctx_slot' = SlotWritten)]_vars
  /\ [][(symbols' # symbols /\ symbols # <<>>) =>
          (ctx_slot = SlotWritten /\ ctx_slot' = ctx_slot)]_vars
  /\ [][(lookups' # lookups \/ loads' # loads) =>
          (ctx_slot = SlotWritten /\ ctx_slot' = ctx_slot)]_vars

\* the slot of a library that exports it holds this node's address when
\* the first loader has just been called
C16_Witness ==
  /\ pc = "init_loop"
  /\ lib.hasCtx
  /\ ctx_slot = This
  /\ Len(loads) = 1
  /\ Len(symbols) = 3

\* C17: the cursor of the stream never passes the declared length of the
\* blob. When the declared length is too short for the 8-byte count, Init
\* fails at the read of the count, with no loader looked up and no import.
\* When the count is one more than the records in the blob and the loaders
\* consume exactly their payloads, Init fails at the read of the type key
\* of the missing record, with the cursor at most at the end of the blob
\* and one import per record that is there, none for the missing one.
C17_ReadsStayInsideBlob ==
  /\ curr_ptr_ <= lib.nbytes
  /\ \A k \in 1..Len(loads) : loads[k].to <= lib.nbytes
  /\ (Parsed /\ lib.nbytes < U64Bytes) =>
       /\ pc = "failed"
       /\ error = "Check failed: stream->Read(&size)"
       /\ curr_ptr_ = 0
       /\ lookups = <<>>
       /\ imports_ = <<>>
  /\ (Parsed /\ AllRecordsExact /\ lib.count = Len(lib.recs) + 1
             /\ lib.nbytes = Len(lib.blob)) =>
       /\ pc = "failed"
       /\ error = "Check failed: stream->Read(&tkey)"
       /\ size = lib.count
       /\ i = Len(lib.recs)
       /\ Len(imports_) = Len(lib.recs)
       /\ Len(lookups) = Len(lib.recs)
  /\ Succeeded => Len(imports_) <= Len(lib.recs)

\* the blob announces three records and holds two: both were loaded, then
\* the read of the third type key failed Init
C17_Witness ==
  /\ pc = "failed"
  /\ error = "Check failed: stream->Read(&tkey)"
  /\ lib.count = 3
  /\ Len(lib.recs) = 2
  /\ Len(imports_) = 2
  /\ curr_ptr_ = lib.nbytes

=============================================================================
